---- MODULE Spec2Model ----
(***************************************************************************)
(* A model of the wreath looper: the cursor (Head, src/head.h) and the     *)
(* phase machine of the stereo engine (StereoLooper, src/stereo_looper.h). *)
(*                                                                         *)
(* Numbers.  The float fields of Head (index_, rate_, fadeIndex_) are      *)
(* fixed-point numbers counted in units of 1/Den of a sample, idealised    *)
(* real arithmetic; the int32_t fields are integers.  Sample values are    *)
(* not modelled: a cursor records which buffer indices a call touches      *)
(* (acc) and Read returns either the literal 0 or the sample it computed.  *)
(***************************************************************************)
EXTENDS Integers, FiniteSets, Sequences, TLC

(* ------------------------------------------------------------------ *)
(* Program constants.                                                 *)
(* ------------------------------------------------------------------ *)
kMinLoopLengthSamples == 48
kSamplesToFade == 1200
kBufferSamples == 48000

FORWARD == 1
BACKWARDS == -1

(* ------------------------------------------------------------------ *)
(* Bounds of the model.                                               *)
(* ------------------------------------------------------------------ *)
\* Resolution of the fixed-point floats: 1/Den of a sample.
Den == 2
\* Capacity given to Head::Init in the specification of all public calls.
MaxBufferSamples == 2
\* UpdatePosition is not called once |position| exceeds this many samples.
MaxPos == 3
\* The sample rate given to StereoLooper::Init: the length of the warm-up.
SampleRate == 1
\* The host raises a request flag only while fewer than this many are set.
MaxPending == 2
\* The loop setters are checked on buffers of kMinLoopLengthSamples up to
\* kMinLoopLengthSamples + SetterSlack samples.
SetterSlack == 2
SampleClock == 2
MaxCapture == 4
MaxSets == 2

Min(a, b) == IF a < b THEN a ELSE b
Max(a, b) == IF a > b THEN a ELSE b
Abs(a) == IF a < 0 THEN -a ELSE a
\* static_cast<int32_t>(std::floor(x)) of a fixed-point x.
Floor(x) == x \div Den
\* An int32_t converted to float.
ToFloat(i) == i * Den

(* ------------------------------------------------------------------ *)
(* Head (src/head.h).  A cursor is a record of the fields of Head plus *)
(* two observation fields: acc, the buffer indices touched by the     *)
(* last call, and ret, what the last call returned (Returned below).  *)
(* ------------------------------------------------------------------ *)
\* What a call returned: the method and its value.  A void method, and a
\* method whose return value is a field of the cursor, returns Void.
Returned(op, val) == [op |-> op, val |-> val]
Void == Returned("void", 0)

NewHead(type) ==
    [type |-> type, maxBufferSamples |-> 0, bufferSamples |-> 0,
     intIndex |-> 0, index |-> 0, rate |-> 0, fadeIndex |-> 0,
     loopStart |-> 0, loopEnd |-> 0, loopLength |-> 0,
     run |-> FALSE, looping |-> FALSE, movement |-> "NORMAL", direction |-> 0,
     mustFade |-> "NO_FADE", isStopping |-> FALSE,
     buffer |-> << >>, acc |-> {}, ret |-> Void]

\* A call starts with nothing touched and nothing returned.
Begin(h) == [h EXCEPT !.acc = {}, !.ret = Void]

SetIndex(h, x) == [h EXCEPT !.index = x, !.intIndex = Floor(x)]

SamplesToFade(h) == Min(kSamplesToFade, h.loopLength)

ResetPosition(h) ==
    SetIndex(h, ToFloat(IF h.direction = FORWARD THEN h.loopStart ELSE h.loopEnd))

\* HandleLoopAction returns the cursor and the Action.
Acted(h, a) == [h |-> h, action |-> a]

HandleLoopActionNormal(h) ==
    IF h.direction = FORWARD
    THEN IF h.looping /\ h.intIndex > h.loopEnd
         THEN IF h.movement = "PENDULUM" /\ h.looping
              THEN Acted(SetIndex(h, ToFloat(h.loopEnd) - (h.index - ToFloat(h.loopEnd))), "INVERT")
              ELSE Acted(SetIndex(h, (ToFloat(h.loopStart) + (h.index - ToFloat(h.loopEnd))) - ToFloat(1)), "LOOP")
         ELSE IF ~h.isStopping /\ ~h.looping /\ h.intIndex > h.loopEnd - SamplesToFade(h)
              THEN Acted(h, "STOP")
              ELSE Acted(h, "NO_ACTION")
    ELSE IF h.looping /\ h.intIndex < h.loopStart
         THEN IF h.movement = "PENDULUM" /\ h.looping
              THEN Acted(SetIndex(h, ToFloat(h.loopStart) + (ToFloat(h.loopStart) - h.index)), "INVERT")
              ELSE Acted(SetIndex(h, (ToFloat(h.loopEnd) - Abs(ToFloat(h.loopStart) - h.index)) + ToFloat(1)), "LOOP")
         ELSE IF ~h.isStopping /\ ~h.looping /\ h.intIndex < h.loopStart + SamplesToFade(h)
              THEN Acted(h, "STOP")
              ELSE Acted(h, "NO_ACTION")

HandleLoopActionInverted(h) ==
    LET frame == ToFloat(h.bufferSamples - 1)
        loopOrStop == IF h.looping THEN "LOOP" ELSE "STOP"
        inGap == h.intIndex > h.loopEnd /\ h.intIndex < h.loopStart
    IN  IF h.direction = FORWARD
        THEN IF ToFloat(h.intIndex) > frame
             THEN Acted(SetIndex(h, (h.index - frame) - ToFloat(1)), loopOrStop)
             ELSE IF inGap
                  THEN IF h.movement = "PENDULUM" /\ h.looping
                       THEN Acted(SetIndex(h, Max(ToFloat(h.loopEnd) - (h.index - ToFloat(h.loopEnd)), 0)), "INVERT")
                       ELSE Acted(SetIndex(h, Min(ToFloat(h.loopStart) + (h.index - ToFloat(h.loopEnd)) - ToFloat(1), frame)), loopOrStop)
                  ELSE Acted(h, "NO_ACTION")
        ELSE IF h.intIndex < 0
             THEN Acted(SetIndex(h, (frame - Abs(h.index)) + ToFloat(1)), loopOrStop)
             ELSE IF inGap
                  THEN IF h.movement = "PENDULUM" /\ h.looping
                       THEN Acted(SetIndex(h, Min(ToFloat(h.loopStart) + (ToFloat(h.loopStart) - h.index), frame)), "INVERT")
                       ELSE Acted(SetIndex(h, Max(ToFloat(h.loopEnd) - (ToFloat(h.loopStart) - h.index) + ToFloat(1), 0)), loopOrStop)
                  ELSE Acted(h, "NO_ACTION")

\* Loop handling that does not tell the two topologies apart.
HandleLoopActionAlwaysInverted(h) == HandleLoopActionInverted(h)

HandleLoopActionAlwaysNormal(h) == HandleLoopActionNormal(h)

HandleLoopAction(h) ==
    IF h.loopEnd > h.loopStart
    THEN HandleLoopActionNormal(h)
    ELSE HandleLoopActionInverted(h)

\* Index wrapping that takes every loop for a normal one.
WrapIndexNormalOnly(h, index) ==
    IF index > h.loopEnd
    THEN IF h.movement = "PENDULUM"
         THEN h.loopEnd - (index - h.loopEnd)
         ELSE IF h.direction = FORWARD
              THEN (h.loopStart + (index - h.loopEnd)) - 1
              ELSE 0
    ELSE IF index < h.loopStart
         THEN IF h.movement = "PENDULUM"
              THEN h.loopStart + (h.loopStart - index)
              ELSE IF h.direction = BACKWARDS
                   THEN (h.loopEnd - Abs(h.loopStart - index)) + 1
                   ELSE 0
         ELSE index

WrapIndex(h, index) ==
    IF h.loopEnd > h.loopStart
    THEN IF index > h.loopEnd
         THEN IF h.movement = "PENDULUM"
              THEN h.loopEnd - (index - h.loopEnd)
              ELSE IF h.direction = FORWARD
                   THEN (h.loopStart + (index - h.loopEnd)) - 1
                   ELSE 0
         ELSE IF index < h.loopStart
              THEN IF h.movement = "PENDULUM"
                   THEN h.loopStart + (h.loopStart - index)
                   ELSE IF h.direction = BACKWARDS
                        THEN (h.loopEnd - Abs(h.loopStart - index)) + 1
                        ELSE 0
              ELSE index
    ELSE LET frame == h.bufferSamples - 1
         IN  IF index > frame
             THEN (index - frame) - 1
             ELSE IF index < 0
                  THEN (frame - Abs(index)) + 1
                  ELSE IF index > h.loopEnd /\ index < h.loopStart
                       THEN IF h.direction = FORWARD
                            THEN IF h.movement = "PENDULUM"
                                 THEN Max(h.loopEnd - (index - h.loopEnd), 0)
                                 ELSE Min(h.loopStart + (index - h.loopEnd) - 1, frame)
                            ELSE IF h.movement = "PENDULUM"
                                 THEN Min(h.loopStart + (h.loopStart - index), frame)
                                 ELSE Max(h.loopEnd - (h.loopStart - index) + 1, 0)
                       ELSE index

\* A loop end that is not wrapped into the buffer.
CalculateLoopEndUnwrapped(h) ==
    [h EXCEPT !.loopEnd = h.loopStart + h.loopLength - 1]

CalculateLoopEnd(h) ==
    IF h.loopStart + h.loopLength > h.bufferSamples
    THEN [h EXCEPT !.loopEnd = (h.loopStart + h.loopLength) - h.bufferSamples - 1]
    ELSE [h EXCEPT !.loopEnd = h.loopStart + h.loopLength - 1]

Reset(h) ==
    [h EXCEPT !.intIndex = 0, !.index = 0, !.rate = ToFloat(1),
              !.loopStart = 0, !.loopEnd = 0, !.loopLength = 0,
              !.run = TRUE, !.looping = TRUE,
              !.movement = "NORMAL", !.direction = FORWARD]

HeadInit(h, maxBufferSamples) ==
    Reset([h EXCEPT !.maxBufferSamples = maxBufferSamples])

SetLoopStart(h, start) ==
    LET h1 == CalculateLoopEnd(
                 [h EXCEPT !.loopStart = Min(Max(start, 0), h.bufferSamples - 1)])
        h2 == IF ~h1.looping THEN ResetPosition(h1) ELSE h1
    IN  [h2 EXCEPT !.ret = Returned("SetLoopStart", h2.loopStart)]

\* A SetLoopLength that does not raise a short length to the minimum.
SetLoopLengthNoMinimum(h, length) ==
    LET h1 == CalculateLoopEnd(
                 [h EXCEPT !.loopLength = Min(Max(length, 0), h.bufferSamples)])
    IN  [h1 EXCEPT !.ret = Returned("SetLoopLength", h1.loopLength)]

SetLoopLength(h, length) ==
    LET h1 == CalculateLoopEnd(
                 [h EXCEPT !.loopLength =
                      Min(Max(length, kMinLoopLengthSamples), h.bufferSamples)])
    IN  [h1 EXCEPT !.ret = Returned("SetLoopLength", h1.loopLength)]

SetRate(h, rate) == [h EXCEPT !.rate = rate]
SetMovement(h, movement) == [h EXCEPT !.movement = movement]
SetDirection(h, direction) == [h EXCEPT !.direction = direction]
SetLooping(h, looping) == [h EXCEPT !.looping = looping]

\* A direction toggle that leaves the direction as it is.
KeepDirection(h) == h

ToggleDirection(h) == [h EXCEPT !.direction = h.direction * (-1)]

\* ReadAt touches buffer_[floor(index)] and, when the index has a fractional
\* part, buffer_[WrapIndex(floor(index) + direction)].
ReadAt(h, index) ==
    LET intPos == Floor(index)
        frac == index - ToFloat(intPos)
    IN  [h EXCEPT !.acc = h.acc \cup {intPos}
                              \cup (IF frac > 0
                                    THEN {WrapIndex(h, intPos + h.direction)}
                                    ELSE {})]

SetUpFade(h, fade) ==
    [ReadAt(h, h.index) EXCEPT !.mustFade = fade, !.fadeIndex = 0]

Run(h, fade) ==
    IF fade THEN SetUpFade(h, "IN") ELSE [h EXCEPT !.run = TRUE]

\* A Stop that leaves the position where it is.
StopKeepsPosition(h, fade) ==
    IF fade /\ ~h.isStopping
    THEN SetUpFade([h EXCEPT !.isStopping = TRUE], "OUT")
    ELSE [h EXCEPT !.isStopping = FALSE, !.run = FALSE]

Stop(h, fade) ==
    IF fade /\ ~h.isStopping
    THEN SetUpFade([h EXCEPT !.isStopping = TRUE], "OUT")
    ELSE ResetPosition([h EXCEPT !.isStopping = FALSE, !.run = FALSE])

ToggleRun(h) == [h EXCEPT !.run = ~h.run, !.ret = Returned("ToggleRun", ~h.run)]

\* An Advance that treats a Write cursor as it treats a Read cursor.
UpdatePositionAnyType(h) ==
    IF ~h.run
    THEN [h EXCEPT !.ret = Returned("UpdatePosition", "NO_ACTION")]
    ELSE LET r == HandleLoopAction(SetIndex(h, h.index + h.rate * h.direction))
             h1 == CASE r.action = "STOP" -> Stop(r.h, TRUE)
                     [] r.action = "INVERT" -> ToggleDirection(r.h)
                     [] OTHER -> r.h
         IN  [h1 EXCEPT !.ret = Returned("UpdatePosition", r.action)]

UpdatePosition(h) ==
    IF ~h.run
    THEN [h EXCEPT !.ret = Returned("UpdatePosition", "NO_ACTION")]
    ELSE LET r == HandleLoopAction(SetIndex(h, h.index + h.rate * h.direction))
             h1 == IF h.type = "READ"
                   THEN CASE r.action = "STOP" -> Stop(r.h, TRUE)
                          [] r.action = "INVERT" -> ToggleDirection(r.h)
                          [] OTHER -> r.h
                   ELSE r.h
         IN  [h1 EXCEPT !.ret = Returned("UpdatePosition", r.action)]

\* One branch of the fade ramps of Read and Write: advance the ramp, or end it.
FadeStep(h) ==
    IF h.fadeIndex < ToFloat(SamplesToFade(h) - 1)
    THEN [h EXCEPT !.fadeIndex = h.fadeIndex + h.rate]
    ELSE [h EXCEPT !.mustFade = "NO_FADE"]

FadeEnds(h) == ~(h.fadeIndex < ToFloat(SamplesToFade(h) - 1))

Read(h) ==
    LET h0 == ReadAt(h, h.index)
        h1 == CASE h0.mustFade = "IN" -> FadeStep(Run(h0, FALSE))
                [] h0.mustFade = "OUT" ->
                     IF FadeEnds(h0) THEN Stop(FadeStep(h0), FALSE) ELSE FadeStep(h0)
                [] h0.mustFade = "SMOOTH" -> FadeStep(h0)
                [] OTHER -> h0
    IN  [h1 EXCEPT !.ret = Returned("Read", IF h1.run THEN "currentValue" ELSE "zero")]

Write(h) ==
    LET h0 == ReadAt(h, h.index)
        h1 == CASE h0.mustFade = "IN" -> FadeStep(Run(h0, FALSE))
                [] h0.mustFade = "OUT" ->
                     IF FadeEnds(h0) THEN Stop(FadeStep(h0), FALSE) ELSE FadeStep(h0)
                [] OTHER -> h0
    IN  IF h1.run
        THEN [h1 EXCEPT !.acc = h1.acc \cup {WrapIndex(h1, h1.intIndex)}]
        ELSE h1

Buffer(h) ==
    LET h0 == [h EXCEPT !.acc = h.acc \cup {h.intIndex}]
    IN  IF h0.bufferSamples > h0.maxBufferSamples - 1
        THEN [h0 EXCEPT !.ret = Returned("Buffer", TRUE)]
        ELSE [h0 EXCEPT !.intIndex = h0.intIndex + 1,
                        !.bufferSamples = h0.intIndex + 1,
                        !.ret = Returned("Buffer", FALSE)]

InitBuffer(h, bufferSamples) ==
    [h EXCEPT !.bufferSamples = bufferSamples,
              !.loopLength = bufferSamples,
              !.loopEnd = bufferSamples - 1]

\* The buffer is an array of float: head.buffer maps each byte offset to the
\* byte stored there, a sample being SizeOfFloat bytes.  A float is given by
\* its bytes, lowest address first: 0.0f and 1.0f (0x3F800000, little-endian).
SizeOfFloat == 4
ZeroFloat == <<0, 0, 0, 0>>
OneFloat == <<0, 0, 128, 63>>
FloatValues == {ZeroFloat, OneFloat}

Bytes(samples) ==
    [b \in 0 .. SizeOfFloat * Len(samples) - 1 |->
        samples[(b \div SizeOfFloat) + 1][(b % SizeOfFloat) + 1]]

SampleAt(h, i) == [k \in 1 .. SizeOfFloat |-> h.buffer[SizeOfFloat * i + k - 1]]

\* buffer_[i] = value
Store(h, i, value) ==
    [h EXCEPT !.buffer =
        [b \in DOMAIN h.buffer |->
            IF b \div SizeOfFloat = i THEN value[(b % SizeOfFloat) + 1]
                                      ELSE h.buffer[b]]]

\* memset(buffer_, 0.f, maxBufferSamples_): the first maxBufferSamples_ bytes
\* are set to 0.
ClearBuffer(h) ==
    [h EXCEPT !.buffer =
        [b \in DOMAIN h.buffer |-> IF b < h.maxBufferSamples THEN 0 ELSE h.buffer[b]]]

StopBuffering(h) ==
    LET h1 == ResetPosition([h EXCEPT !.intIndex = 0,
                                      !.loopLength = h.bufferSamples,
                                      !.loopEnd = h.bufferSamples - 1])
    IN  [h1 EXCEPT !.ret = Returned("StopBuffering", h1.bufferSamples)]

(* ------------------------------------------------------------------ *)
(* Looper (src/looper.h declares it; its bodies are not part of the    *)
(* sources).  A channel is its capturing cursor and, as an observation,*)
(* the one-shot requests the current Process call applied to it.       *)
(* ------------------------------------------------------------------ *)
Channels == {"LEFT", "RIGHT"}

NewLooper == [head |-> NewHead("WRITE"), readRate |-> 0, applied |-> {}]

LooperInit(l, maxBufferSamples) ==
    [l EXCEPT !.head = HeadInit(l.head, maxBufferSamples), !.readRate = ToFloat(1)]

LooperReset(l) == [l EXCEPT !.head = Reset(l.head), !.readRate = ToFloat(1)]

\* The channel's setters reach its cursors; its read rate is its own field.
LooperSetLoopLength(l, length) ==
    [l EXCEPT !.head = SetLoopLength(Begin(l.head), length)]

LooperSetLoopStart(l, start) ==
    [l EXCEPT !.head = SetLoopStart(Begin(l.head), start)]

LooperSetReadRate(l, rate) == [l EXCEPT !.readRate = rate]

GetBufferSamples(l) == l.head.bufferSamples
GetLoopStart(l) == l.head.loopStart
GetLoopLength(l) == l.head.loopLength
GetReadRate(l) == l.readRate

LooperBuffer(l) == [l EXCEPT !.head = Buffer(Begin(l.head))]

LooperStopBuffering(l) == [l EXCEPT !.head = StopBuffering(Begin(l.head))]

\* ClearBuffer, Stop(true) with Reset, Trigger, Start(false), Stop(false): the
\* request is recorded as applied to the channel.
LooperApply(l, request) == [l EXCEPT !.applied = l.applied \cup {request}]

(* ------------------------------------------------------------------ *)
(* StereoLooper (src/stereo_looper.h).  freeze is counted in units of  *)
(* 1/Den, so freeze_ >= 0.5f reads 2 * freeze >= Den.                  *)
(* ------------------------------------------------------------------ *)
Running == {"RECORDING", "FROZEN"}

IsFrozen(e) == e.state = "FROZEN"

OnBoth(e, Op(_)) ==
    [e EXCEPT !.loopers = [c \in Channels |-> Op(e.loopers[c])]]

StereoReset(e) == OnBoth(e, LooperReset)

NewStereoLooper ==
    [state |-> "STARTUP", freeze |-> 0, fadeIndex |-> 0, sampleRate |-> 0,
     mustRestart |-> FALSE, mustResetLooper |-> FALSE, mustClearBuffer |-> FALSE,
     mustStopBuffering |-> FALSE, mustStart |-> FALSE, mustStop |-> FALSE,
     nextLoopStart |-> [c \in Channels |-> 0],
     nextLoopLength |-> [c \in Channels |-> 0],
     nextReadRate |-> [c \in Channels |-> 0],
     mustSetChannelWriteRate |-> "NONE", nextWriteRate |-> 0,
     loopers |-> [c \in Channels |-> NewLooper]]

StereoInit(e, sampleRate, bufferSamples) ==
    LET InitLooper(l) == LooperInit(l, bufferSamples)
    IN  StereoReset([OnBoth(e, InitLooper) EXCEPT !.sampleRate = sampleRate,
                                                  !.state = "STARTUP"])

SetFreeze(e, value) ==
    LET e1 == IF 2 * value < Den /\ IsFrozen(e)
              THEN [e EXCEPT !.state = "RECORDING"]
              ELSE IF 2 * value >= Den /\ ~IsFrozen(e)
                   THEN [e EXCEPT !.state = "FROZEN"]
                   ELSE e
    IN  [e1 EXCEPT !.freeze = value]

\* SetFreeze(!frozen): the bool converts to 1.0f or 0.0f.
ToggleFreeze(e) == SetFreeze(e, IF ~IsFrozen(e) THEN ToFloat(1) ELSE 0)

Start(e) == [e EXCEPT !.state = "RECORDING"]

ProcessStartup(e) ==
    LET e1 == IF e.fadeIndex > e.sampleRate
              THEN [e EXCEPT !.fadeIndex = 0, !.state = "BUFFERING"]
              ELSE e
    IN  [e1 EXCEPT !.fadeIndex = e1.fadeIndex + 1]

\* A Buffering phase that ends the capture of the left channel only.
ProcessBufferingStopsLeft(e) ==
    LET e1 == OnBoth(e, LooperBuffer)
        doneLeft == e1.loopers["LEFT"].head.ret.val
        doneRight == e1.loopers["RIGHT"].head.ret.val
    IN  IF (doneLeft /\ doneRight) \/ e1.mustStopBuffering
        THEN [e1 EXCEPT !.loopers["LEFT"] = LooperStopBuffering(@),
                        !.mustStopBuffering = FALSE,
                        !.state = "READY"]
        ELSE e1

\* A Buffering phase that only capacity ends, whatever the stop request.
ProcessBufferingIgnoresStop(e) ==
    LET e1 == OnBoth(e, LooperBuffer)
    IN  IF e1.loopers["LEFT"].head.ret.val /\ e1.loopers["RIGHT"].head.ret.val
        THEN [OnBoth(e1, LooperStopBuffering) EXCEPT !.mustStopBuffering = FALSE,
                                                     !.state = "READY"]
        ELSE e1

ProcessBuffering(e) ==
    LET e1 == OnBoth(e, LooperBuffer)
        doneLeft == e1.loopers["LEFT"].head.ret.val
        doneRight == e1.loopers["RIGHT"].head.ret.val
    IN  IF (doneLeft /\ doneRight) \/ e1.mustStopBuffering
        THEN [OnBoth(e1, LooperStopBuffering) EXCEPT !.mustStopBuffering = FALSE,
                                                     !.state = "READY"]
        ELSE e1

\* A READY step that also takes the restart request as served.
ProcessReadyDropsRestart(e) ==
    [e EXCEPT !.nextLoopLength = [c \in Channels |-> GetLoopLength(e.loopers[c])],
              !.nextLoopStart = [c \in Channels |-> GetLoopStart(e.loopers[c])],
              !.nextReadRate = [c \in Channels |-> ToFloat(1)],
              !.mustRestart = FALSE]

\* A READY step that latches the loop but leaves the read-rate targets alone.
ProcessReadyKeepsReadRate(e) ==
    [e EXCEPT !.nextLoopLength = [c \in Channels |-> GetLoopLength(e.loopers[c])],
              !.nextLoopStart = [c \in Channels |-> GetLoopStart(e.loopers[c])]]

ProcessReady(e) ==
    [e EXCEPT !.nextLoopLength = [c \in Channels |-> GetLoopLength(e.loopers[c])],
              !.nextLoopStart = [c \in Channels |-> GetLoopStart(e.loopers[c])],
              !.nextReadRate = [c \in Channels |-> ToFloat(1)]]

\* The channel arguments of the engine's setters, and the channels they name.
ChannelArgs == {"LEFT", "RIGHT", "BOTH", "NONE"}

Named(channel) == {c \in Channels : channel = c \/ channel = "BOTH"}

StereoSetLoopStart(e, channel, value) ==
    [e EXCEPT !.nextLoopStart =
        [c \in Channels |->
            IF c \in Named(channel)
            THEN Min(Max(value, 0), GetBufferSamples(e.loopers[c]) - 1)
            ELSE e.nextLoopStart[c]]]

StereoSetReadRate(e, channel, rate) ==
    [e EXCEPT !.nextReadRate =
        [c \in Channels |-> IF c \in Named(channel) THEN rate
                                                     ELSE e.nextReadRate[c]]]

SetWriteRate(e, channel, rate) ==
    [e EXCEPT !.mustSetChannelWriteRate = channel, !.nextWriteRate = rate]

StereoSetLoopLength(e, channel, length) ==
    [e EXCEPT !.nextLoopLength =
        [c \in Channels |->
            IF c \in Named(channel)
            THEN Min(Max(length, kMinLoopLengthSamples), GetBufferSamples(e.loopers[c]))
            ELSE e.nextLoopLength[c]]]

\* The targets are slewed with coefficient 1 (kParamSlewCoeff, rateSlew), so a
\* target that differs from the current value is handed to the channel as is.
UpdateChannel(e, c) ==
    LET l0 == e.loopers[c]
        l1 == IF GetLoopLength(l0) # e.nextLoopLength[c]
              THEN LooperSetLoopLength(l0, e.nextLoopLength[c]) ELSE l0
        l2 == IF GetLoopStart(l1) # e.nextLoopStart[c]
              THEN LooperSetLoopStart(l1, e.nextLoopStart[c]) ELSE l1
    IN  IF GetReadRate(l2) # e.nextReadRate[c]
        THEN LooperSetReadRate(l2, e.nextReadRate[c]) ELSE l2

UpdateParameters(e) ==
    [e EXCEPT !.loopers = [c \in Channels |-> UpdateChannel(e, c)]]

\* The one-shot requests of a Process call in RECORDING or FROZEN, in the
\* order of the code.  startDone and stopDone are what Looper::Start(false)
\* and Looper::Stop(false) return on each channel.
ApplyClearBuffer(e) ==
    IF e.mustClearBuffer
    THEN LET Clear(l) == LooperApply(l, "clear")
         IN  OnBoth([e EXCEPT !.mustClearBuffer = FALSE], Clear)
    ELSE e

ApplyResetLooper(e) ==
    IF e.mustResetLooper
    THEN LET StopFading(l) == LooperApply(l, "reset")
         IN  [StereoReset(OnBoth([e EXCEPT !.mustResetLooper = FALSE], StopFading))
                 EXCEPT !.state = "BUFFERING"]
    ELSE e

ApplyRestart(e) ==
    IF e.mustRestart
    THEN LET Trigger(l) == LooperApply(l, "restart")
         IN  [OnBoth(e, Trigger) EXCEPT !.mustRestart = FALSE]
    ELSE e

\* A Process that clears mustStart whatever the channels return.
ApplyStartAlwaysClears(e, startDone) ==
    IF e.mustStart
    THEN LET StartChannel(l) == LooperApply(l, "start")
         IN  [OnBoth(e, StartChannel) EXCEPT !.mustStart = FALSE]
    ELSE e

ApplyStart(e, startDone) ==
    IF e.mustStart
    THEN LET StartChannel(l) == LooperApply(l, "start")
             e1 == OnBoth(e, StartChannel)
         IN  IF startDone["LEFT"] /\ startDone["RIGHT"]
             THEN [e1 EXCEPT !.mustStart = FALSE]
             ELSE e1
    ELSE e

ApplyStop(e, stopDone) ==
    IF e.mustStop
    THEN LET StopChannel(l) == LooperApply(l, "stop")
             e1 == OnBoth(e, StopChannel)
         IN  IF stopDone["LEFT"] /\ stopDone["RIGHT"]
             THEN [e1 EXCEPT !.mustStop = FALSE]
             ELSE e1
    ELSE e

ProcessRunning(e, startDone, stopDone) ==
    ApplyStop(ApplyStart(ApplyRestart(ApplyResetLooper(ApplyClearBuffer(
                  UpdateParameters(e)))),
                         startDone),
              stopDone)

Process(e, startDone, stopDone) ==
    LET Fresh(l) == [l EXCEPT !.applied = {}]
        e0 == OnBoth(e, Fresh)
    IN  CASE e0.state = "STARTUP" -> ProcessStartup(e0)
          [] e0.state = "BUFFERING" -> ProcessBuffering(e0)
          [] e0.state = "READY" -> ProcessReady(e0)
          [] e0.state \in Running -> ProcessRunning(e0, startDone, stopDone)

(* ------------------------------------------------------------------ *)
(* The cursor under its public calls.  A capture (Buffer calls, with   *)
(* setter calls between them) is ended by StopBuffering; the cursor is *)
(* then run, stopped, advanced, read and written, and its setters are  *)
(* called, in any order.                                               *)
(* ------------------------------------------------------------------ *)
VARIABLES
    head,   \* the cursor
    calls,  \* what has been called on it so far (history, not program state)
    eng,    \* the stereo engine
    seen    \* what the engine's last call started from (history)

vars == <<head, calls, eng, seen>>

Types == {"READ", "WRITE"}
Movements == {"NORMAL", "PENDULUM"}
Directions == {FORWARD, BACKWARDS}
\* Arguments of SetRate (rate >= 0), SetLoopStart and SetLoopLength.
Rates == {0, Den \div 2, Den}
StartInputs == {-1} \cup (1 .. MaxBufferSamples)
LengthInputs == {1, kMinLoopLengthSamples + 1}

\* The history: nBuffer, the Buffer calls of the capture (forgotten at the
\* first call after the StopBuffering that ends it); onlyBuffer, nothing but
\* Buffer has been called; stopped, StopBuffering has been called; outEnded,
\* the last call was a Read that ended an Out fade; outDone, a Read has ended
\* an Out fade and Run has not been called since; idle, a Read has ended an
\* Out fade and nothing has enabled the cursor since; before, the position
\* and direction the last Advance of a pendulum started from; arg, the
\* argument of the last setter call; stops, how many Advances have reported
\* Stop (counted up to 2); ran, the cursor was running when the last Advance
\* of a loop began; tick, the sample clock of a cursor processed once per
\* sample, modulo SampleClock; full, Buffer has returned true in the current
\* capture; again, the current capture began with a Reset that followed a full
\* capture; overwrote, the last Process call found a target that a setter
\* called in READY had left different from what READY latches; sets, how many
\* target setters the host has called.
NoCalls ==
    [nBuffer |-> 0, onlyBuffer |-> TRUE, stopped |-> FALSE, outEnded |-> FALSE,
     outDone |-> FALSE, idle |-> FALSE, before |-> [index |-> 0, direction |-> 0],
     arg |-> 0, stops |-> 0, ran |-> FALSE, tick |-> 0, full |-> FALSE,
     again |-> FALSE, overwrote |-> FALSE, sets |-> 0, pc |-> "idle",
     owed |-> {}, extra |-> FALSE, raises |-> 0, cleared |-> FALSE, kept |-> FALSE]

\* The history after a call other than Buffer.
Called ==
    [calls EXCEPT !.onlyBuffer = FALSE, !.outEnded = FALSE,
                  !.nBuffer = IF calls.stopped THEN 0 ELSE calls.nBuffer]

\* The engine as StereoLooper::Init leaves it, and its history.
Requests == {"clear", "reset", "restart", "start", "stop"}

EngineAtInit == StereoInit(NewStereoLooper, SampleRate, MaxBufferSamples)

Pending(e) ==
    {r \in Requests :
        \/ r = "clear" /\ e.mustClearBuffer
        \/ r = "reset" /\ e.mustResetLooper
        \/ r = "restart" /\ e.mustRestart
        \/ r = "start" /\ e.mustStart
        \/ r = "stop" /\ e.mustStop}

\* op, the last call; phase, the phase it started in; pending, the requests
\* pending when it started (for Process); done, what the channels' Start and
\* Stop returned to it.
NothingSeen ==
    [op |-> "Init", phase |-> "STARTUP", pending |-> {},
     startDone |-> TRUE, stopDone |-> TRUE, strayed |-> FALSE]

Init ==
    /\ \E t \in Types : head = HeadInit(NewHead(t), MaxBufferSamples)
    /\ calls = NoCalls
    /\ eng = EngineAtInit
    /\ seen = NothingSeen

CallBuffer ==
    /\ ~calls.stopped
    /\ calls.nBuffer <= MaxBufferSamples
    /\ head' = Buffer(Begin(head))
    /\ calls' = [calls EXCEPT !.nBuffer = calls.nBuffer + 1]
    /\ UNCHANGED <<eng, seen>>

CallStopBuffering ==
    /\ head' = StopBuffering(Begin(head))
    /\ calls' = [Called EXCEPT !.stopped = TRUE]
    /\ UNCHANGED <<eng, seen>>

CallSetLoopStart ==
    \E start \in StartInputs :
        /\ head' = SetLoopStart(Begin(head), start)
        /\ calls' = Called
        /\ UNCHANGED <<eng, seen>>

CallSetLoopLength ==
    \E length \in LengthInputs :
        /\ head' = SetLoopLength(Begin(head), length)
        /\ calls' = Called
        /\ UNCHANGED <<eng, seen>>

CallSetRate ==
    \E rate \in Rates :
        /\ head' = SetRate(Begin(head), rate)
        /\ calls' = Called
        /\ UNCHANGED <<eng, seen>>

CallSetMovement ==
    \E movement \in Movements :
        /\ head' = SetMovement(Begin(head), movement)
        /\ calls' = Called
        /\ UNCHANGED <<eng, seen>>

CallSetDirection ==
    \E direction \in Directions :
        /\ head' = SetDirection(Begin(head), direction)
        /\ calls' = Called
        /\ UNCHANGED <<eng, seen>>

CallSetLooping ==
    \E looping \in BOOLEAN :
        /\ head' = SetLooping(Begin(head), looping)
        /\ calls' = Called
        /\ UNCHANGED <<eng, seen>>

CallRun ==
    \E fade \in BOOLEAN :
        /\ calls.stopped
        /\ head' = Run(Begin(head), fade)
        /\ calls' = [Called EXCEPT !.outDone = FALSE, !.idle = FALSE]
        /\ UNCHANGED <<eng, seen>>

CallStop ==
    \E fade \in BOOLEAN :
        /\ calls.stopped
        /\ head' = Stop(Begin(head), fade)
        /\ calls' = Called
        /\ UNCHANGED <<eng, seen>>

\* The model stops advancing a cursor that is MaxPos samples away from 0.
CallUpdatePosition ==
    /\ calls.stopped
    /\ head.intIndex \in -MaxPos .. MaxPos
    /\ head' = UpdatePosition(Begin(head))
    /\ calls' = Called
    /\ UNCHANGED <<eng, seen>>

\* Read ends an Out fade when it finds the ramp at its end.
OutFadeEnds(h) == h.mustFade = "OUT" /\ FadeEnds(h)

CallRead ==
    /\ calls.stopped
    /\ head' = Read(Begin(head))
    /\ calls' = [Called EXCEPT !.outEnded = OutFadeEnds(head),
                               !.outDone = calls.outDone \/ OutFadeEnds(head),
                               !.idle = calls.idle \/ OutFadeEnds(head)]
    /\ UNCHANGED <<eng, seen>>

CallWrite ==
    /\ calls.stopped
    /\ head' = Write(Begin(head))
    /\ calls' = Called
    /\ UNCHANGED <<eng, seen>>

Next ==
    \/ CallBuffer
    \/ CallStopBuffering
    \/ CallSetLoopStart
    \/ CallSetLoopLength
    \/ CallSetRate
    \/ CallSetMovement
    \/ CallSetDirection
    \/ CallSetLooping
    \/ CallRun
    \/ CallStop
    \/ CallUpdatePosition
    \/ CallRead
    \/ CallWrite

Spec == Init /\ [][Next]_vars

(* ------------------------------------------------------------------ *)
(* The engine under its public calls: the host sets the freeze level,  *)
(* toggles it, starts the engine, raises one-shot requests, and calls  *)
(* Process once per frame.                                             *)
(* ------------------------------------------------------------------ *)
\* Arguments of SetFreeze in units of 1/Den: 0, the midpoint, above 1.
FreezeInputs == {0, Den \div 2, Den + 1}
Flags == Requests \cup {"stopBuffering"}
Dones == [Channels -> BOOLEAN]
BothDone(done) == done["LEFT"] /\ done["RIGHT"]

\* A public request flag set by the host.
Raise(e, flag) ==
    CASE flag = "clear" -> [e EXCEPT !.mustClearBuffer = TRUE]
      [] flag = "reset" -> [e EXCEPT !.mustResetLooper = TRUE]
      [] flag = "restart" -> [e EXCEPT !.mustRestart = TRUE]
      [] flag = "start" -> [e EXCEPT !.mustStart = TRUE]
      [] flag = "stop" -> [e EXCEPT !.mustStop = TRUE]
      [] flag = "stopBuffering" -> [e EXCEPT !.mustStopBuffering = TRUE]

\* The phase changes the state machine of the engine allows.
PhaseEdges ==
    {<<"STARTUP", "BUFFERING">>, <<"BUFFERING", "READY">>,
     <<"READY", "RECORDING">>, <<"RECORDING", "FROZEN">>,
     <<"FROZEN", "RECORDING">>}

AllowedEdge(from, to, resetApplied) ==
    \/ to = from
    \/ <<from, to>> \in PhaseEdges
    \/ from \in Running /\ to = "BUFFERING" /\ resetApplied

\* The history after the call op took the engine from eng to e.
Saw(op, e, startDone, stopDone) ==
    LET pending == IF op = "Process" THEN Pending(eng) ELSE {}
    IN  [op |-> op, phase |-> eng.state, pending |-> pending,
         startDone |-> ("start" \in pending /\ eng.state \in Running) => BothDone(startDone),
         stopDone |-> ("stop" \in pending /\ eng.state \in Running) => BothDone(stopDone),
         strayed |-> seen.strayed
                      \/ ~AllowedEdge(eng.state, e.state,
                                      op = "Process" /\ "reset" \in pending)]

AllDone == [c \in Channels |-> TRUE]

HostSetFreeze ==
    \E value \in FreezeInputs :
        /\ eng' = SetFreeze(eng, value)
        /\ seen' = Saw("Host", eng', AllDone, AllDone)
        /\ UNCHANGED <<head, calls>>

HostToggleFreeze ==
    /\ eng' = ToggleFreeze(eng)
    /\ seen' = Saw("Host", eng', AllDone, AllDone)
    /\ UNCHANGED <<head, calls>>

HostStart ==
    /\ eng' = Start(eng)
    /\ seen' = Saw("Host", eng', AllDone, AllDone)
    /\ UNCHANGED <<head, calls>>

\* The host raises a request while fewer than MaxPending flags are set.
Raised(e) == Pending(e) \cup (IF e.mustStopBuffering THEN {"stopBuffering"} ELSE {})

HostRaise ==
    \E flag \in Flags :
        /\ Cardinality(Raised(eng)) < MaxPending
        /\ eng' = Raise(eng, flag)
        /\ seen' = Saw("Host", eng', AllDone, AllDone)
        /\ UNCHANGED <<head, calls>>

\* What Looper::Start(false) or Looper::Stop(false) may return in the coming
\* Process call: anything where the call is made, and not drawn where it is not.
Returns(request) ==
    IF eng.state \in Running /\ request \in Pending(eng) THEN Dones ELSE {AllDone}

HostProcess ==
    \E startDone \in Returns("start"), stopDone \in Returns("stop") :
        /\ eng' = Process(eng, startDone, stopDone)
        /\ seen' = Saw("Process", eng', startDone, stopDone)
        /\ UNCHANGED <<head, calls>>

EngineNext ==
    \/ HostSetFreeze
    \/ HostToggleFreeze
    \/ HostStart
    \/ HostRaise
    \/ HostProcess

EngineInit == Init /\ head.type = "READ"

SpecEngine == EngineInit /\ [][EngineNext]_vars

\* The engine under its requests alone: the host toggles the freeze, starts the
\* engine, raises requests and calls Process.
RequestsNext ==
    \/ HostToggleFreeze
    \/ HostStart
    \/ HostRaise
    \/ HostProcess

SpecRequests == EngineInit /\ [][RequestsNext]_vars

(* ------------------------------------------------------------------ *)
(* The engine and its pending targets: the host writes the loop-start, *)
(* loop-length and read-rate targets and requests a write rate, ends   *)
(* the capture, starts the engine, and calls Process once per frame.   *)
(* ------------------------------------------------------------------ *)
TargetStarts == {0, 1}
TargetLengths == {1, kMinLoopLengthSamples}
TargetRates == {Den \div 2, Den}
\* The host calls at most MaxSets target setters.
MaySet == calls.sets < MaxSets
Set == [calls EXCEPT !.sets = calls.sets + 1]

\* Some target of channel c differs from what a Process call in READY latches.
Unlatched(e, c) ==
    \/ e.nextLoopStart[c] # GetLoopStart(e.loopers[c])
    \/ e.nextLoopLength[c] # GetLoopLength(e.loopers[c])
    \/ e.nextReadRate[c] # ToFloat(1)

TargetsSetLoopStart ==
    \E channel \in ChannelArgs, value \in TargetStarts :
        /\ MaySet
        /\ eng' = StereoSetLoopStart(eng, channel, value)
        /\ seen' = Saw("Set", eng', AllDone, AllDone)
        /\ calls' = Set
        /\ UNCHANGED head

TargetsSetLoopLength ==
    \E channel \in ChannelArgs, length \in TargetLengths :
        /\ MaySet
        /\ eng' = StereoSetLoopLength(eng, channel, length)
        /\ seen' = Saw("Set", eng', AllDone, AllDone)
        /\ calls' = Set
        /\ UNCHANGED head

TargetsSetReadRate ==
    \E channel \in ChannelArgs, rate \in TargetRates :
        /\ MaySet
        /\ eng' = StereoSetReadRate(eng, channel, rate)
        /\ seen' = Saw("Set", eng', AllDone, AllDone)
        /\ calls' = Set
        /\ UNCHANGED head

TargetsSetWriteRate ==
    \E channel \in ChannelArgs, rate \in TargetRates :
        /\ MaySet
        /\ eng' = SetWriteRate(eng, channel, rate)
        /\ seen' = Saw("Set", eng', AllDone, AllDone)
        /\ calls' = Set
        /\ UNCHANGED head

TargetsStopBuffering ==
    /\ eng' = Raise(eng, "stopBuffering")
    /\ seen' = Saw("Host", eng', AllDone, AllDone)
    /\ UNCHANGED <<head, calls>>

TargetsProcess ==
    /\ eng' = Process(eng, AllDone, AllDone)
    /\ seen' = Saw("Process", eng', AllDone, AllDone)
    /\ calls' = [calls EXCEPT !.overwrote =
                    /\ seen.op = "Set" /\ seen.phase = "READY"
                    /\ eng.state = "READY"
                    /\ \E c \in Channels : Unlatched(eng, c)]
    /\ UNCHANGED head

TargetsNext ==
    \/ TargetsSetLoopStart
    \/ TargetsSetLoopLength
    \/ TargetsSetReadRate
    \/ TargetsSetWriteRate
    \/ TargetsStopBuffering
    \/ HostStart
    \/ TargetsProcess

SpecTargets == EngineInit /\ [][TargetsNext]_vars

(* ------------------------------------------------------------------ *)
(* Captures of the two channels: the host ends a capture, starts the   *)
(* engine, requests a reset, writes loop targets of one channel or of  *)
(* both, and calls Process once per frame.                             *)
(* ------------------------------------------------------------------ *)
LockstepRaiseReset ==
    /\ ~eng.mustResetLooper
    /\ eng' = Raise(eng, "reset")
    /\ seen' = Saw("Host", eng', AllDone, AllDone)
    /\ UNCHANGED <<head, calls>>

LockstepNext ==
    \/ TargetsSetLoopStart
    \/ TargetsSetLoopLength
    \/ TargetsStopBuffering
    \/ LockstepRaiseReset
    \/ HostStart
    \/ TargetsProcess

SpecLockstep == EngineInit /\ [][LockstepNext]_vars

(* ------------------------------------------------------------------ *)
(* The restart request under two contexts.  The audio context runs     *)
(* Process; in RECORDING or FROZEN its steps on mustRestart are taken  *)
(* one field access at a time: the test of the flag, the Trigger of    *)
(* the left channel, the Trigger of the right channel, the write of    *)
(* false.  The control context sets the flag at any point in between.  *)
(* calls.pc is the audio context's position, calls.owed the channels   *)
(* not triggered since the latest raise, calls.extra whether a channel *)
(* was triggered with no raise since its previous Trigger.             *)
(* ------------------------------------------------------------------ *)
MaxRaises == 2

Ticked(c) == [c EXCEPT !.tick = (c.tick + 1) % SampleClock]

\* The rest of the RECORDING/FROZEN case after the restart request.
AfterRestart(e) == ApplyStop(ApplyStart(e, AllDone), AllDone)

Triggered(c) ==
    [calls EXCEPT !.owed = calls.owed \ {c},
                  !.extra = calls.extra \/ c \notin calls.owed]

ControlRaise ==
    /\ calls.raises < MaxRaises
    /\ eng' = Raise(eng, "restart")
    /\ seen' = Saw("Host", eng', AllDone, AllDone)
    /\ calls' = [calls EXCEPT !.owed = Channels, !.raises = calls.raises + 1]
    /\ UNCHANGED head

\* Process up to and including its test of mustRestart; outside RECORDING
\* and FROZEN the whole call.
AudioBegin ==
    /\ calls.pc = "idle"
    /\ LET Fresh(l) == [l EXCEPT !.applied = {}]
           e0 == OnBoth(eng, Fresh)
           e1 == ApplyResetLooper(ApplyClearBuffer(UpdateParameters(e0)))
       IN  IF eng.state \notin Running
           THEN eng' = Process(eng, AllDone, AllDone) /\ calls' = Ticked(calls)
           ELSE IF e1.mustRestart
                THEN eng' = e1 /\ calls' = [calls EXCEPT !.pc = "left"]
                ELSE eng' = AfterRestart(e1) /\ calls' = Ticked(calls)
    /\ seen' = Saw("Process", eng', AllDone, AllDone)
    /\ UNCHANGED head

AudioTriggerLeft ==
    /\ calls.pc = "left"
    /\ eng' = [eng EXCEPT !.loopers["LEFT"] = LooperApply(@, "restart")]
    /\ calls' = [Triggered("LEFT") EXCEPT !.pc = "right"]
    /\ UNCHANGED <<head, seen>>

AudioTriggerRight ==
    /\ calls.pc = "right"
    /\ eng' = [eng EXCEPT !.loopers["RIGHT"] = LooperApply(@, "restart")]
    /\ calls' = [Triggered("RIGHT") EXCEPT !.pc = "clear"]
    /\ UNCHANGED <<head, seen>>

\* The write mustRestart = false, and the rest of the call.
AudioClear ==
    /\ calls.pc = "clear"
    /\ eng' = AfterRestart([eng EXCEPT !.mustRestart = FALSE])
    /\ calls' = Ticked([calls EXCEPT !.pc = "idle"])
    /\ UNCHANGED <<head, seen>>

Audio == AudioBegin \/ AudioTriggerLeft \/ AudioTriggerRight \/ AudioClear

RestartNext ==
    \/ ControlRaise
    \/ HostStart
    \/ HostToggleFreeze
    \/ AudioBegin
    \/ AudioTriggerLeft
    \/ AudioTriggerRight
    \/ AudioClear

\* The audio callback is called block after block: its next step is always
\* taken in the end.
SpecRestart == EngineInit /\ [][RestartNext]_vars /\ WF_vars(Audio)

(* ------------------------------------------------------------------ *)
(* A Read cursor over a captured buffer, its loop set once, under the  *)
(* calls that run, stop, fade, advance and read it.                    *)
(* ------------------------------------------------------------------ *)
Fades == {"NO_FADE", "IN", "OUT", "SMOOTH"}

FadeInit ==
    /\ \E n \in 1 .. MaxBufferSamples, start \in StartInputs, length \in LengthInputs :
           head = Begin(SetLoopLength(SetLoopStart(
                      InitBuffer(HeadInit(NewHead("READ"), MaxBufferSamples), n),
                      start), length))
    /\ calls = [NoCalls EXCEPT !.onlyBuffer = FALSE, !.stopped = TRUE]
    /\ eng = EngineAtInit
    /\ seen = NothingSeen

CallToggleRun ==
    /\ calls.stopped
    /\ head' = ToggleRun(Begin(head))
    /\ calls' = [Called EXCEPT !.idle = FALSE]
    /\ UNCHANGED <<eng, seen>>

CallSetUpFade ==
    \E fade \in Fades :
        /\ calls.stopped
        /\ head' = SetUpFade(Begin(head), fade)
        /\ calls' = [Called EXCEPT !.idle = calls.idle /\ fade # "IN"]
        /\ UNCHANGED <<eng, seen>>

CallReset ==
    /\ calls.stopped
    /\ head' = Reset(Begin(head))
    /\ calls' = [Called EXCEPT !.idle = FALSE]
    /\ UNCHANGED <<eng, seen>>

FadeNext ==
    \/ CallSetRate
    \/ CallSetDirection
    \/ CallSetLooping
    \/ CallRun
    \/ CallStop
    \/ CallToggleRun
    \/ CallSetUpFade
    \/ CallReset
    \/ CallUpdatePosition
    \/ CallRead

SpecFade == FadeInit /\ [][FadeNext]_vars

(* ------------------------------------------------------------------ *)
(* A looping Read cursor in Pendulum movement over a fixed loop of a   *)
(* full-size buffer, advanced at a constant rate.                      *)
(* ------------------------------------------------------------------ *)
PendulumStarts == {0, 1000}
PendulumLengths == {kMinLoopLengthSamples, 500}
\* Rates below the loop length: 1/Den, 1, and 1/Den less than the length.
PendulumRates(length) == {1, Den, ToFloat(length) - 1}

\* The cursor after the calls that set the scenario up.
Pendulum(start, length, rate, atEnd, direction) ==
    LET h0 == InitBuffer(HeadInit(NewHead("READ"), kBufferSamples), kBufferSamples)
        h1 == SetLoopLength(SetLoopStart(h0, start), length)
        h2 == SetLooping(SetMovement(h1, "PENDULUM"), TRUE)
        h3 == SetDirection(SetRate(h2, rate), direction)
    IN  Begin(SetIndex(h3, ToFloat(IF atEnd THEN h3.loopEnd ELSE h3.loopStart)))

PendulumInit ==
    /\ \E start \in PendulumStarts, length \in PendulumLengths,
          atEnd \in BOOLEAN, direction \in Directions :
           \E rate \in PendulumRates(length) :
               head = Pendulum(start, length, rate, atEnd, direction)
    /\ calls = [NoCalls EXCEPT !.onlyBuffer = FALSE, !.stopped = TRUE]
    /\ eng = EngineAtInit
    /\ seen = NothingSeen

\* The model stops advancing a cursor that is MaxPos samples outside its loop.
Advance ==
    /\ head.intIndex \in (head.loopStart - MaxPos) .. (head.loopEnd + MaxPos)
    /\ head' = UpdatePosition(Begin(head))
    /\ calls' = [Called EXCEPT !.before = [index |-> head.index,
                                           direction |-> head.direction]]
    /\ UNCHANGED <<eng, seen>>

PendulumNext == Advance

SpecPendulum == PendulumInit /\ [][PendulumNext]_vars

(* ------------------------------------------------------------------ *)
(* The loop setters on a cursor over a buffer of at least              *)
(* kMinLoopLengthSamples samples.                                      *)
(* ------------------------------------------------------------------ *)
SetterBuffers == kMinLoopLengthSamples .. (kMinLoopLengthSamples + SetterSlack)
\* Arguments of the loop setters: from below 0 to above every buffer length,
\* and a full engine buffer.
SetterInputs == (-2 .. (kMinLoopLengthSamples + SetterSlack + 2)) \cup {kBufferSamples}

SetterInit ==
    /\ \E t \in Types, n \in SetterBuffers :
           head = InitBuffer(HeadInit(NewHead(t), kMinLoopLengthSamples + SetterSlack), n)
    /\ calls = [NoCalls EXCEPT !.onlyBuffer = FALSE, !.stopped = TRUE]
    /\ eng = EngineAtInit
    /\ seen = NothingSeen

SetterSetLoopStart ==
    \E start \in SetterInputs :
        /\ head' = SetLoopStart(Begin(head), start)
        /\ calls' = [Called EXCEPT !.arg = start]
        /\ UNCHANGED <<eng, seen>>

SetterSetLoopLength ==
    \E length \in SetterInputs :
        /\ head' = SetLoopLength(Begin(head), length)
        /\ calls' = [Called EXCEPT !.arg = length]
        /\ UNCHANGED <<eng, seen>>

SetterReset ==
    /\ head' = Reset(Begin(head))
    /\ calls' = [Called EXCEPT !.arg = 0]
    /\ UNCHANGED <<eng, seen>>

SetterNext ==
    \/ SetterSetLoopStart
    \/ SetterSetLoopLength
    \/ SetterReset

SpecSetters == SetterInit /\ [][SetterNext]_vars

(* ------------------------------------------------------------------ *)
(* A cursor over a fixed loop of a full-size buffer, in either loop    *)
(* topology, advanced at a constant rate.                              *)
(* ------------------------------------------------------------------ *)
LoopStarts == {1000, 47500}
LoopLengths == {kMinLoopLengthSamples, 500, 1000}
\* Rates up to the loop length: 1/Den, 1, and the length itself.
LoopRates(length) == {1, Den, ToFloat(length)}

\* The cursor after the calls that set the loop up.
Looped(type, start, length, movement, looping, rate, atEnd, direction) ==
    LET h0 == InitBuffer(HeadInit(NewHead(type), kBufferSamples), kBufferSamples)
        h1 == SetLoopLength(SetLoopStart(h0, start), length)
        h2 == SetLooping(SetMovement(h1, movement), looping)
        h3 == SetDirection(SetRate(h2, rate), direction)
    IN  Begin(SetIndex(h3, ToFloat(IF atEnd THEN h3.loopEnd ELSE h3.loopStart)))

LoopInit ==
    /\ \E type \in Types, start \in LoopStarts, length \in LoopLengths,
          movement \in Movements, looping \in BOOLEAN,
          atEnd \in BOOLEAN, direction \in Directions :
           \E rate \in LoopRates(length) :
               head = Looped(type, start, length, movement, looping, rate,
                             atEnd, direction)
    /\ calls = [NoCalls EXCEPT !.onlyBuffer = FALSE, !.stopped = TRUE]
    /\ eng = EngineAtInit
    /\ seen = NothingSeen

\* The cursor is inside its loop region or at most MaxPos samples outside it.
InReach(h) ==
    IF h.loopEnd > h.loopStart
    THEN h.intIndex \in (h.loopStart - MaxPos) .. (h.loopEnd + MaxPos)
    ELSE \/ h.intIndex \in (0 - MaxPos) .. (h.loopEnd + MaxPos)
         \/ h.intIndex \in (h.loopStart - MaxPos) .. (h.bufferSamples - 1 + MaxPos)

\* The model stops advancing a cursor that is out of reach of its loop.
LoopAdvance ==
    /\ InReach(head)
    /\ head' = UpdatePosition(Begin(head))
    /\ calls' = [Called EXCEPT !.before = [index |-> head.index,
                                           direction |-> head.direction],
                               !.ran = head.run]
    /\ UNCHANGED <<eng, seen>>

LoopNext == LoopAdvance

SpecLoop == LoopInit /\ [][LoopNext]_vars

(* ------------------------------------------------------------------ *)
(* A cursor of either type over a fixed loop, advanced while Run,      *)
(* Stop and SetUpFade start fades and Read and Write run them.         *)
(* ------------------------------------------------------------------ *)
FrameStarts == {1000, kBufferSamples - 10}
\* Half the loop length and the loop length, in units of 1/Den.
FrameRates == {ToFloat(kMinLoopLengthSamples) \div 2, ToFloat(kMinLoopLengthSamples)}

FrameInit ==
    /\ \E type \in Types, start \in FrameStarts, movement \in Movements,
          looping \in BOOLEAN, atEnd \in BOOLEAN, direction \in Directions,
          rate \in FrameRates :
           head = Looped(type, start, kMinLoopLengthSamples, movement, looping,
                         rate, atEnd, direction)
    /\ calls = [NoCalls EXCEPT !.onlyBuffer = FALSE, !.stopped = TRUE]
    /\ eng = EngineAtInit
    /\ seen = NothingSeen

FrameNext ==
    \/ LoopAdvance
    \/ CallRun
    \/ CallStop
    \/ CallSetUpFade
    \/ CallRead
    \/ CallWrite

SpecFrame == FrameInit /\ [][FrameNext]_vars

(* ------------------------------------------------------------------ *)
(* WrapIndex applied to the indices in and around a loop the setters   *)
(* produce, under every movement and direction.                        *)
(* ------------------------------------------------------------------ *)
WrapMovements == {"NORMAL", "PENDULUM", "DRUNK"}
WrapInputs(h) == -2 .. (h.bufferSamples + 1)

WrapInit ==
    /\ \E n \in SetterBuffers, movement \in WrapMovements, direction \in Directions :
         \E start \in 0 .. (n - 1), length \in kMinLoopLengthSamples .. n :
           LET h0 == InitBuffer(HeadInit(NewHead("READ"), kMinLoopLengthSamples + SetterSlack), n)
               h1 == SetLoopLength(SetLoopStart(h0, start), length)
           IN  head = Begin(SetDirection(SetMovement(h1, movement), direction))
    /\ calls = [NoCalls EXCEPT !.onlyBuffer = FALSE, !.stopped = TRUE]
    /\ eng = EngineAtInit
    /\ seen = NothingSeen

\* WrapIndex changes no field; the call and its result are recorded.
CallWrapIndex ==
    /\ \E index \in WrapInputs(head) :
         LET wrapped == WrapIndex(head, index)
         IN  head' = [Begin(head) EXCEPT !.ret =
                        Returned("WrapIndex", [index |-> index, wrapped |-> wrapped,
                                               again |-> WrapIndex(head, wrapped)])]
    /\ calls' = Called
    /\ UNCHANGED <<eng, seen>>

WrapNext == CallWrapIndex

SpecWrap == WrapInit /\ [][WrapNext]_vars

(* ------------------------------------------------------------------ *)
(* A non-looping Read cursor played from its loop's natural start, in  *)
(* either loop topology, until it stops.                               *)
(* ------------------------------------------------------------------ *)
\* A short buffer, where the fade spans the whole loop, and a full-size one,
\* where the loop is longer than the fade.
StopBuffers == {kMinLoopLengthSamples + SetterSlack, kBufferSamples}
StopStarts(n) == IF n = kBufferSamples THEN {1000, 47500} ELSE {0, 10}
StopLength(n) == IF n = kBufferSamples THEN 2000 ELSE kMinLoopLengthSamples
StopRates(n) == IF n = kBufferSamples THEN {ToFloat(100)} ELSE {1, Den}

StopInit ==
    /\ \E n \in StopBuffers, direction \in Directions :
         \E start \in StopStarts(n), rate \in StopRates(n) :
           LET h0 == InitBuffer(HeadInit(NewHead("READ"), n), n)
               h1 == SetLoopLength(SetLoopStart(h0, start), StopLength(n))
               h2 == SetLooping(SetMovement(h1, "NORMAL"), FALSE)
               h3 == SetDirection(SetRate(h2, rate), direction)
           IN  head = Begin(ResetPosition(h3))
    /\ calls = [NoCalls EXCEPT !.onlyBuffer = FALSE, !.stopped = TRUE]
    /\ eng = EngineAtInit
    /\ seen = NothingSeen

\* An Advance; the model counts the ones that report Stop, up to two, and
\* stops advancing a cursor that is out of reach of its loop.
StopAdvance ==
    /\ InReach(head)
    /\ head' = UpdatePosition(Begin(head))
    /\ calls' = [Called EXCEPT !.before = [index |-> head.index,
                                           direction |-> head.direction],
                               !.ran = head.run,
                               !.stops = IF head'.ret.val = "STOP"
                                         THEN Min(calls.stops + 1, 2)
                                         ELSE calls.stops]
    /\ UNCHANGED <<eng, seen>>

StopNext ==
    \/ StopAdvance
    \/ CallRead

SpecStop == StopInit /\ [][StopNext]_vars

(* ------------------------------------------------------------------ *)
(* The fade ramp of a cursor over a short buffer: fades are set up,    *)
(* the rate and the loop length change, and Read or Write steps the    *)
(* ramp.                                                               *)
(* ------------------------------------------------------------------ *)
\* Arguments of SetRate: a stopped ramp, half speed, unit speed, double speed.
RampRates == {0, Den \div 2, Den, 2 * Den}
RampLengths == kMinLoopLengthSamples .. (kMinLoopLengthSamples + SetterSlack)

\* A cursor of the given type over a captured buffer of the longest length.
Ramped(type) ==
    InitBuffer(HeadInit(NewHead(type), kMinLoopLengthSamples + SetterSlack),
               kMinLoopLengthSamples + SetterSlack)

RampInit ==
    /\ \E type \in Types : head = Begin(Ramped(type))
    /\ calls = [NoCalls EXCEPT !.onlyBuffer = FALSE, !.stopped = TRUE]
    /\ eng = EngineAtInit
    /\ seen = NothingSeen

RampSetRate ==
    \E rate \in RampRates :
        /\ head' = SetRate(Begin(head), rate)
        /\ calls' = Called
        /\ UNCHANGED <<eng, seen>>

RampSetLoopLength ==
    \E length \in RampLengths :
        /\ head' = SetLoopLength(Begin(head), length)
        /\ calls' = Called
        /\ UNCHANGED <<eng, seen>>

RampRead ==
    /\ head.type = "READ"
    /\ head' = Read(Begin(head))
    /\ calls' = Called
    /\ UNCHANGED <<eng, seen>>

RampWrite ==
    /\ head.type = "WRITE"
    /\ head' = Write(Begin(head))
    /\ calls' = Called
    /\ UNCHANGED <<eng, seen>>

RampNext ==
    \/ CallSetUpFade
    \/ RampSetRate
    \/ RampSetLoopLength
    \/ RampRead
    \/ RampWrite

SpecRamp == RampInit /\ [][RampNext]_vars

(* ------------------------------------------------------------------ *)
(* A cursor on which a fade has been set up, processed once per sample *)
(* (Read for a Read cursor, Write for a Write cursor) with no further  *)
(* request.                                                            *)
(* ------------------------------------------------------------------ *)
SampleInit ==
    /\ \E type \in Types, fade \in Fades \ {"NO_FADE"},
          rate \in RampRates, length \in RampLengths :
           head = Begin(SetUpFade(SetRate(SetLoopLength(Ramped(type), length), rate),
                                  fade))
    /\ calls = [NoCalls EXCEPT !.onlyBuffer = FALSE, !.stopped = TRUE]
    /\ eng = EngineAtInit
    /\ seen = NothingSeen

SampleRead ==
    /\ head.type = "READ"
    /\ head' = Read(Begin(head))
    /\ calls' = [Called EXCEPT !.tick = (calls.tick + 1) % SampleClock]
    /\ UNCHANGED <<eng, seen>>

SampleWrite ==
    /\ head.type = "WRITE"
    /\ head' = Write(Begin(head))
    /\ calls' = [Called EXCEPT !.tick = (calls.tick + 1) % SampleClock]
    /\ UNCHANGED <<eng, seen>>

SampleNext ==
    \/ SampleRead
    \/ SampleWrite

\* The audio callback runs for every sample: the next sample is always processed.
SpecSample == SampleInit /\ [][SampleNext]_vars /\ WF_vars(SampleNext)

(* ------------------------------------------------------------------ *)
(* Captures of a cursor: Buffer calls ended by StopBuffering, and      *)
(* Reset starting the next capture.                                    *)
(* ------------------------------------------------------------------ *)
CaptureInit ==
    /\ \E type \in Types, capacity \in 1 .. MaxCapture :
           head = HeadInit(NewHead(type), capacity)
    /\ calls = NoCalls
    /\ eng = EngineAtInit
    /\ seen = NothingSeen

\* The model stops calling Buffer two calls after capacity.
CaptureBuffer ==
    /\ ~calls.stopped
    /\ calls.nBuffer <= head.maxBufferSamples
    /\ head' = Buffer(Begin(head))
    /\ calls' = [calls EXCEPT !.nBuffer = calls.nBuffer + 1,
                              !.full = calls.full \/ head'.ret.val]
    /\ UNCHANGED <<eng, seen>>

CaptureStopBuffering ==
    /\ ~calls.stopped
    /\ head' = StopBuffering(Begin(head))
    /\ calls' = [calls EXCEPT !.stopped = TRUE, !.onlyBuffer = FALSE]
    /\ UNCHANGED <<eng, seen>>

CaptureReset ==
    /\ head' = Reset(Begin(head))
    /\ calls' = [NoCalls EXCEPT !.again = calls.full]
    /\ UNCHANGED <<eng, seen>>

CaptureNext ==
    \/ CaptureBuffer
    \/ CaptureStopBuffering
    \/ CaptureReset

SpecCapture == CaptureInit /\ [][CaptureNext]_vars

(* ------------------------------------------------------------------ *)
(* A cursor and the samples of its buffer: a capture that stores a     *)
(* value per Buffer call, StopBuffering, and ClearBuffer.              *)
(* ------------------------------------------------------------------ *)
Contents(capacity) == [1 .. capacity -> FloatValues]

\* What the latest call left alone, the buffer aside.
Kept(h) == [h EXCEPT !.buffer = head.buffer, !.acc = head.acc, !.ret = head.ret] = head

ClearInit ==
    /\ \E type \in Types, capacity \in 1 .. MaxCapture :
           \E samples \in Contents(capacity) :
               head = [HeadInit(NewHead(type), capacity) EXCEPT !.buffer = Bytes(samples)]
    /\ calls = NoCalls
    /\ eng = EngineAtInit
    /\ seen = NothingSeen

\* Buffer(value) while the store is inside the buffer.
ClearCapture ==
    \E value \in FloatValues :
        /\ ~calls.stopped
        /\ head.intIndex < head.maxBufferSamples
        /\ head' = Buffer(Store(Begin(head), head.intIndex, value))
        /\ calls' = [calls EXCEPT !.nBuffer = calls.nBuffer + 1, !.cleared = FALSE]
        /\ UNCHANGED <<eng, seen>>

ClearStopBuffering ==
    /\ ~calls.stopped
    /\ head' = StopBuffering(Begin(head))
    /\ calls' = [calls EXCEPT !.stopped = TRUE, !.onlyBuffer = FALSE, !.cleared = FALSE]
    /\ UNCHANGED <<eng, seen>>

CallClearBuffer ==
    /\ head' = ClearBuffer(Begin(head))
    /\ calls' = [calls EXCEPT !.cleared = TRUE, !.kept = Kept(head')]
    /\ UNCHANGED <<eng, seen>>

ClearNext ==
    \/ ClearCapture
    \/ ClearStopBuffering
    \/ CallClearBuffer

SpecClear == ClearInit /\ [][ClearNext]_vars

(* ------------------------------------------------------------------ *)
(* Claims about the cursor under its public calls.                    *)
(* ------------------------------------------------------------------ *)

\* C1: every buffer index a public call reads or writes (the store of Buffer,
\* the base and the interpolation-neighbour index of ReadAt, the store index
\* of Write) lies in [0, capacity).
C1_AccessInBounds ==
    \A i \in head.acc : 0 <= i /\ i < head.maxBufferSamples

\* The loop geometry the data model asks for.
LoopWellFormed(h) ==
    /\ 0 <= h.loopStart /\ h.loopStart < h.bufferSamples
    /\ 1 <= h.loopLength /\ h.loopLength <= h.bufferSamples

\* C2: once a capture has been stopped, the integer position after every
\* UpdatePosition is inside [0, bufferedLength).  Stated for the cursors the
\* claim is most plausible for: the loop geometry is well formed and the rate
\* is no larger than the loop.
C2_PositionInBuffer ==
    (calls.stopped /\ LoopWellFormed(head) /\ head.rate <= ToFloat(head.loopLength)
        /\ head.ret.op = "UpdatePosition")
        => (0 <= head.intIndex /\ head.intIndex < head.bufferSamples)

\* C3: on a fresh cursor of capacity C, of the first C Buffer calls exactly
\* the C-th returns true, and none of them stores at an index >= C.
C3_BufferReturnsTrueOnLastCall ==
    (calls.onlyBuffer /\ head.ret.op = "Buffer"
        /\ calls.nBuffer \in 1 .. head.maxBufferSamples)
        => /\ head.ret.val = (calls.nBuffer = head.maxBufferSamples)
           /\ \A i \in head.acc : i < head.maxBufferSamples

\* C4: StopBuffering after N Buffer calls (0 < N <= capacity), whatever setters
\* were called during the capture, returns N and leaves bufferedLength N, the
\* loop spanning the captured region and the position at the start of the loop
\* for the current direction.  (Stated for captures that left loopStart
\* non-negative.)
C4_StopBufferingSpansCapture ==
    (head.ret.op = "StopBuffering" /\ calls.nBuffer \in 1 .. head.maxBufferSamples
        /\ head.loopStart >= 0)
        => /\ head.ret.val = calls.nBuffer
           /\ head.bufferSamples = calls.nBuffer
           /\ head.loopStart = 0
           /\ head.loopLength = calls.nBuffer
           /\ head.loopEnd = calls.nBuffer - 1
           /\ head.intIndex = (IF head.direction = FORWARD THEN 0 ELSE calls.nBuffer - 1)
           /\ head.index = ToFloat(head.intIndex)

(* ------------------------------------------------------------------ *)
(* Claims about the engine under its public calls.                    *)
(* ------------------------------------------------------------------ *)

\* C5: the phase changes only along Startup -> Buffering -> Ready ->
\* Recording <-> Frozen, and from Recording or Frozen to Buffering when a
\* Process call applies a reset request.
C5_PhaseFollowsStateMachine ==
    AllowedEdge(seen.phase, eng.state,
                seen.op = "Process" /\ "reset" \in seen.pending)

\* C6: whenever the phase is Recording or Frozen, it is Frozen if and only if
\* the stored freeze level is at or above 0.5.  Stated for the executions in
\* which every phase change so far followed the state machine of C5.
C6_FrozenIffFreezeAtMidpoint ==
    (~seen.strayed /\ eng.state \in Running)
        => (IsFrozen(eng) <=> 2 * eng.freeze >= Den)

ProcessedRunning == seen.op = "Process" /\ seen.phase \in Running

AppliedToBoth(r) == \A c \in Channels : r \in eng.loopers[c].applied

OutFadeCompleted ==
    calls.outEnded
        => /\ head.ret = Returned("Read", "zero")
           /\ head.mustFade = "NO_FADE"
           /\ ~head.run
           /\ ~head.isStopping
           /\ head.intIndex = (IF head.direction = FORWARD THEN head.loopStart
                                                           ELSE head.loopEnd)
           /\ head.index = ToFloat(head.intIndex)

\* C8 as claimed: the Read that ends an Out fade returns 0 and leaves the
\* cursor with no fade, disabled, not stopping and at the loop's natural
\* start; every later Read returns 0 until Run is called.
C8_ZeroUntilRun ==
    /\ OutFadeCompleted
    /\ (calls.outDone /\ head.ret.op = "Read") => head.ret.val = "zero"

\* C8 as amended: the Read that ends an Out fade returns 0 and leaves the
\* cursor with no fade, disabled, not stopping and at the loop's natural
\* start; every later Read returns 0 until the cursor is enabled again, by
\* Run, ToggleRun, Reset or an In fade set up with SetUpFade.
C8_ZeroUntilEnabled ==
    /\ OutFadeCompleted
    /\ (calls.idle /\ head.ret.op = "Read") => head.ret.val = "zero"

\* C8's case: an Out fade that ramped was ended by a Read, with the cursor
\* going backwards in a loop of more than one sample, and a later Read
\* found the cursor still disabled.
C8_Witness ==
    /\ calls.idle /\ ~calls.outEnded
    /\ head.ret.op = "Read"
    /\ head.fadeIndex > 0
    /\ head.direction = BACKWARDS
    /\ head.loopEnd > head.loopStart
    /\ head.intIndex = head.loopEnd

(* ------------------------------------------------------------------ *)
(* Claims about Pendulum movement.                                    *)
(* ------------------------------------------------------------------ *)
PendulumLoop ==
    /\ head.type = "READ" /\ head.looping /\ head.movement = "PENDULUM"
    /\ head.loopStart < head.loopEnd
    /\ 0 < head.rate /\ head.rate < ToFloat(head.loopLength)

\* C9: a looping Read cursor in Pendulum movement over a fixed loop with
\* loopStart < loopEnd, started inside the loop and advanced at a constant
\* positive rate below loopLength, has its integer position inside
\* [loopStart, loopEnd] after every Advance.
C9_PendulumStaysInLoop ==
    (PendulumLoop /\ head.ret.op = "UpdatePosition")
        => (head.loopStart <= head.intIndex /\ head.intIndex <= head.loopEnd)

\* An Advance at rate 1 that a Forward cursor started from loopEnd.
ForwardFromLoopEnd ==
    /\ PendulumLoop
    /\ head.ret.op = "UpdatePosition"
    /\ head.rate = ToFloat(1)
    /\ calls.before = [index |-> ToFloat(head.loopEnd), direction |-> FORWARD]

InScenario ==
    /\ head.bufferSamples = kBufferSamples
    /\ head.loopStart = 1000 /\ head.loopLength = 500 /\ head.loopEnd = 1499

\* C10 as claimed: in the scenario (loop 1000..1499 of a 48000-sample buffer)
\* and in general, a Forward Read cursor at loopEnd with rate 1 under
\* Pendulum is, after one Advance, at loopEnd with its direction Backward.
C10_ReflectedToLoopEnd ==
    ForwardFromLoopEnd
        => /\ head.intIndex = head.loopEnd
           /\ head.direction = BACKWARDS
           /\ InScenario => head.intIndex = 1499

\* C10 as amended: in the scenario and in general, a Forward Read cursor at
\* loopEnd with rate 1 under Pendulum is, after one Advance, at loopEnd - 1
\* (1498 in the scenario) with its direction Backward.
C10_ReflectedBelowLoopEnd ==
    ForwardFromLoopEnd
        => /\ head.intIndex = head.loopEnd - 1
           /\ head.index = ToFloat(head.loopEnd - 1)
           /\ head.direction = BACKWARDS
           /\ InScenario => head.intIndex = 1498

\* C10's case: the scenario's Advance from 1499 has been made.
C10_Witness ==
    /\ ForwardFromLoopEnd
    /\ InScenario
    /\ calls.before.index = ToFloat(1499)
    /\ head.intIndex = 1498

(* ------------------------------------------------------------------ *)
(* Claims about the loop bounds and the fade length of a cursor.       *)
(* ------------------------------------------------------------------ *)

\* C13: in every state of a cursor reachable through its public calls,
\* 0 <= loopStart < bufferedLength and
\* kMinLoopLengthSamples <= loopLength <= bufferedLength.  Stated for the
\* states after a StopBuffering that ended a capture of at least one sample.
C13_LoopBoundsValid ==
    (calls.stopped /\ head.bufferSamples >= 1)
        => /\ 0 <= head.loopStart /\ head.loopStart < head.bufferSamples
           /\ kMinLoopLengthSamples <= head.loopLength
           /\ head.loopLength <= head.bufferSamples

\* C16: the stored freeze level is inside [0, 1] in every reachable state of
\* the engine.
C16_FreezeLevelClamped == 0 <= eng.freeze /\ eng.freeze <= ToFloat(1)

\* C17: whenever a fade (In, Out or Smooth) is there for Read or Write to
\* evaluate, on a cursor over a captured buffer, samplesToFade() is at least 1.
C17_FadeLengthPositive ==
    (head.mustFade # "NO_FADE" /\ head.bufferSamples >= 1)
        => SamplesToFade(head) >= 1

(* ------------------------------------------------------------------ *)
(* Claims about the loop setters.                                     *)
(* ------------------------------------------------------------------ *)
AfterLoopSetter == head.ret.op \in {"SetLoopStart", "SetLoopLength"}

\* A pair (loopStart, loopLength) the setters can produce on this buffer.
SetterPair ==
    /\ 0 <= head.loopStart /\ head.loopStart <= head.bufferSamples - 1
    /\ kMinLoopLengthSamples <= head.loopLength
    /\ head.loopLength <= head.bufferSamples

\* C14: immediately after SetLoopStart or SetLoopLength on a cursor whose
\* bufferedLength is at least kMinLoopLengthSamples, for every pair
\* (loopStart, loopLength) the setters can produce,
\* loopEnd = (loopStart + loopLength - 1) mod bufferedLength, and so loopEnd
\* lies in [0, bufferedLength - 1].
C14_LoopEndIsModular ==
    (AfterLoopSetter /\ head.bufferSamples >= kMinLoopLengthSamples /\ SetterPair)
        => /\ head.loopEnd = (head.loopStart + head.loopLength - 1) % head.bufferSamples
           /\ 0 <= head.loopEnd /\ head.loopEnd <= head.bufferSamples - 1

\* C14's case: a setter left a loop that runs through the end of the buffer.
C14_Witness ==
    /\ AfterLoopSetter /\ SetterPair
    /\ head.bufferSamples > kMinLoopLengthSamples
    /\ head.loopStart + head.loopLength > head.bufferSamples
    /\ head.loopEnd < head.loopStart

Clamp(v, lo, hi) == IF v < lo THEN lo ELSE IF v > hi THEN hi ELSE v

\* C15: on a cursor with bufferedLength >= kMinLoopLengthSamples, for every
\* v, SetLoopStart(v) stores and returns v clamped to [0, bufferedLength-1]
\* and SetLoopLength(v) stores and returns v clamped to
\* [kMinLoopLengthSamples, bufferedLength].
C15_SettersClampAndReport ==
    head.bufferSamples >= kMinLoopLengthSamples
        => /\ head.ret.op = "SetLoopStart"
                => /\ head.ret.val = Clamp(calls.arg, 0, head.bufferSamples - 1)
                   /\ head.loopStart = head.ret.val
           /\ head.ret.op = "SetLoopLength"
                => /\ head.ret.val = Clamp(calls.arg, kMinLoopLengthSamples,
                                           head.bufferSamples)
                   /\ head.loopLength = head.ret.val

\* C15's case: a length below the minimum was raised to the minimum, on a
\* buffer longer than the minimum whose loop start had been clamped down.
C15_Witness ==
    /\ head.ret.op = "SetLoopLength"
    /\ calls.arg < kMinLoopLengthSamples
    /\ head.ret.val = kMinLoopLengthSamples
    /\ head.bufferSamples > kMinLoopLengthSamples
    /\ head.loopStart = head.bufferSamples - 1

(* ------------------------------------------------------------------ *)
(* Claims about the loop boundaries.                                  *)
(* ------------------------------------------------------------------ *)
\* An Advance of a running cursor has just moved the position to Carried,
\* before HandleLoopAction repositioned it.
Advanced == head.ret.op = "UpdatePosition" /\ calls.ran

Carried == calls.before.index + head.rate * calls.before.direction

NormalLooping ==
    /\ Advanced
    /\ head.loopStart < head.loopEnd
    /\ head.looping /\ head.movement = "NORMAL"

\* C11: in the normal topology with looping set and movement Normal, an
\* Advance that carries a Forward cursor's integer position past loopEnd
\* repositions it to loopStart + (position - loopEnd) - 1 and reports Loop; one
\* that carries a Backward cursor's integer position below loopStart
\* repositions it to loopEnd - (loopStart - position) + 1 and reports Loop; the
\* overshoot is preserved, and the new position is inside [loopStart, loopEnd]
\* whenever rate <= loopLength.  Example: loop 1000..1499, Forward at 1499 with
\* rate 1 advances to 1000.
C11_LoopWrapsPreservingOvershoot ==
    /\ (NormalLooping /\ head.direction = FORWARD /\ Floor(Carried) > head.loopEnd)
        => /\ head.intIndex = head.loopStart + (Floor(Carried) - head.loopEnd) - 1
           /\ head.index - ToFloat(head.loopStart) = Carried - ToFloat(head.loopEnd + 1)
           /\ head.ret.val = "LOOP"
           /\ (head.rate <= ToFloat(head.loopLength)
                  /\ Floor(calls.before.index) <= head.loopEnd)
                => (head.loopStart <= head.intIndex /\ head.intIndex <= head.loopEnd)
           /\ (InScenario /\ calls.before.index = ToFloat(1499) /\ head.rate = ToFloat(1))
                => head.intIndex = 1000
    /\ (NormalLooping /\ head.direction = BACKWARDS /\ Floor(Carried) < head.loopStart)
        => /\ head.intIndex = head.loopEnd - (head.loopStart - Floor(Carried)) + 1
           /\ ToFloat(head.loopEnd + 1) - head.index = ToFloat(head.loopStart) - Carried
           /\ head.ret.val = "LOOP"
           /\ (head.rate <= ToFloat(head.loopLength)
                  /\ Floor(calls.before.index) >= head.loopStart)
                => (head.loopStart <= head.intIndex /\ head.intIndex <= head.loopEnd)

\* C11's case: the example's Advance from 1499 has wrapped to 1000.
C11_Witness ==
    /\ NormalLooping /\ InScenario
    /\ head.direction = FORWARD /\ head.rate = ToFloat(1)
    /\ calls.before.index = ToFloat(1499)
    /\ head.intIndex = 1000 /\ head.ret.val = "LOOP"

InvertedScenario ==
    /\ head.bufferSamples = kBufferSamples
    /\ head.loopStart = 47500 /\ head.loopLength = 1000

\* The position UpdatePosition hands to HandleLoopAction from the current
\* state, and the cursor HandleLoopAction hands back.
Stepped == SetIndex(head, head.index + head.rate * head.direction)

Handled == HandleLoopAction(Stepped).h

\* C12: with loopStart 47500 and loopLength 1000 in a 48000-sample buffer,
\* loopEnd is 499, and a looping Forward cursor at 47999 with rate 1 and
\* movement Normal is at 0 after one Advance, with action Loop.  In general, in
\* the inverted topology HandleLoopAction rotates a Forward cursor passing
\* index bufferedLength-1 to position - bufferedLength and a Backward cursor
\* passing index 0 to position + bufferedLength.
C12_InvertedLoopRotates ==
    /\ InvertedScenario => head.loopEnd = 499
    /\ (Advanced /\ InvertedScenario /\ head.looping /\ head.movement = "NORMAL"
           /\ head.direction = FORWARD /\ head.rate = ToFloat(1)
           /\ calls.before.index = ToFloat(47999))
        => (head.intIndex = 0 /\ head.index = 0 /\ head.ret.val = "LOOP")
    /\ (head.run /\ head.loopEnd < head.loopStart /\ head.direction = FORWARD
           /\ Stepped.intIndex > head.bufferSamples - 1)
        => /\ Handled.index = Stepped.index - ToFloat(head.bufferSamples)
           /\ Handled.intIndex = Stepped.intIndex - head.bufferSamples
    /\ (head.run /\ head.loopEnd < head.loopStart /\ head.direction = BACKWARDS
           /\ Stepped.intIndex < 0)
        => /\ Handled.index = Stepped.index + ToFloat(head.bufferSamples)
           /\ Handled.intIndex = Stepped.intIndex + head.bufferSamples

\* C12's case: the scenario's Advance from 47999 has rotated to 0.
C12_Witness ==
    /\ Advanced /\ InvertedScenario /\ head.loopEnd = 499
    /\ head.looping /\ head.movement = "NORMAL"
    /\ head.direction = FORWARD /\ head.rate = ToFloat(1)
    /\ calls.before.index = ToFloat(47999)
    /\ head.intIndex = 0 /\ head.ret.val = "LOOP"

\* index is inside the active loop region of cursor h.
InActiveRegion(h, index) ==
    \/ /\ h.loopStart < h.loopEnd
       /\ h.loopStart <= index /\ index <= h.loopEnd
    \/ /\ h.loopEnd < h.loopStart
       /\ \/ 0 <= index /\ index <= h.loopEnd
          \/ h.loopStart <= index /\ index <= h.bufferSamples - 1

\* C18: for every index i inside the active loop region (loopStart..loopEnd in
\* the normal topology; 0..loopEnd or loopStart..bufferedLength-1 in the
\* inverted one), under every movement and direction, WrapIndex(i) = i, and so
\* WrapIndex(WrapIndex(i)) = WrapIndex(i).
C18_WrapIndexFixesRegion ==
    (head.ret.op = "WrapIndex" /\ InActiveRegion(head, head.ret.val.index))
        => /\ head.ret.val.wrapped = head.ret.val.index
           /\ head.ret.val.again = head.ret.val.wrapped

\* C18's case: WrapIndex was applied, in an inverted Pendulum loop read
\* Backwards, to an index of the region's part at the start of the buffer.
C18_Witness ==
    /\ head.ret.op = "WrapIndex"
    /\ head.loopEnd < head.loopStart
    /\ head.movement = "PENDULUM" /\ head.direction = BACKWARDS
    /\ 0 < head.ret.val.index /\ head.ret.val.index <= head.loopEnd
    /\ head.ret.val.wrapped = head.ret.val.index

(* ------------------------------------------------------------------ *)
(* Claims about the Stop of a non-looping Read cursor.                *)
(* ------------------------------------------------------------------ *)
\* C19: for a non-looping Read cursor, in both loop topologies, between the
\* Advance that reports Stop and the completion of the fade-out it starts, no
\* later Advance reports Stop again and the fade-out is not cut short: the
\* cursor stays running, stopping, with fade kind Out.
C19_StopOncePerApproach ==
    (head.type = "READ" /\ ~head.looping /\ calls.stops >= 1 /\ ~calls.outDone)
        => /\ calls.stops = 1
           /\ head.run
           /\ head.isStopping
           /\ head.mustFade = "OUT"

\* Samples from the cursor's integer position forward to loopEnd, around the
\* buffer.
ForwardToLoopEnd == (head.loopEnd - head.intIndex) % head.bufferSamples

\* C20: in the inverted topology with looping unset, a Forward Read cursor
\* started at loopStart reports no Stop before its integer position is within
\* samplesToFade() samples of loopEnd, and the Advance that rotates it through
\* the physical end of the buffer reports no Stop.
C20_InvertedStopRule ==
    (/\ head.type = "READ" /\ ~head.looping
     /\ head.loopEnd < head.loopStart
     /\ head.direction = FORWARD
     /\ Advanced /\ calls.stops = 1
     /\ head.ret.val = "STOP")
        => /\ ForwardToLoopEnd < SamplesToFade(head)
           /\ ~(Floor(Carried) > head.bufferSamples - 1)

(* ------------------------------------------------------------------ *)
(* Claims about the fade ramp.                                        *)
(* ------------------------------------------------------------------ *)
\* C21: in every reachable state of a cursor, 0 <= fadeIndex < samplesToFade(),
\* for every rate the cursor accepts (rates above 1 included) and when
\* SetLoopLength shortens the loop while a fade is in progress.
C21_FadeIndexBelowFadeLength ==
    /\ 0 <= head.fadeIndex
    /\ head.fadeIndex < ToFloat(SamplesToFade(head))

\* C22: once SetUpFade has set a fade kind In, Out or Smooth on a cursor whose
\* rate is >= 0, and Read (Read cursor) or Write (Write cursor) is called once
\* per sample with no further fade request, the fade kind eventually returns to
\* None.
C22_FadeTerminates == <>(head.mustFade = "NO_FADE")

(* ------------------------------------------------------------------ *)
(* Claims about the engine's Buffering and Ready phases.              *)
(* ------------------------------------------------------------------ *)
\* What the Buffer call of the coming Process call reports on channel c.
ChannelDone(c) == LooperBuffer(eng.loopers[c]).head.ret.val

BufferingEnds ==
    \/ ChannelDone("LEFT") /\ ChannelDone("RIGHT")
    \/ eng.mustStopBuffering

\* C23: a Process call made in the Buffering phase moves the phase to Ready if
\* and only if both channels' Buffer calls of that call reported capacity
\* reached or the stop-buffering flag was set; when it moves, StopBuffering has
\* run on both channels and the flag is false afterwards; otherwise the phase
\* stays Buffering.
C23_BufferingEndsOnBothDoneOrStop ==
    [][(seen'.op = "Process" /\ eng.state = "BUFFERING")
         => /\ (eng'.state = "READY") <=> BufferingEnds
            /\ BufferingEnds
                 => /\ \A c \in Channels :
                          eng'.loopers[c].head.ret.op = "StopBuffering"
                    /\ ~eng'.mustStopBuffering
            /\ ~BufferingEnds
                 => /\ eng'.state = "BUFFERING"
                    /\ \A c \in Channels :
                          eng'.loopers[c].head.ret = Returned("Buffer", FALSE)]_vars

\* C23's case: a Process call in Buffering has moved the phase to Ready on the
\* stop-buffering request, before capacity was reached, and StopBuffering ran
\* on both channels.
C23_Witness ==
    /\ seen.op = "Process" /\ seen.phase = "BUFFERING"
    /\ eng.state = "READY"
    /\ ~eng.mustStopBuffering
    /\ \A c \in Channels :
          /\ eng.loopers[c].head.ret.op = "StopBuffering"
          /\ eng.loopers[c].head.bufferSamples < eng.loopers[c].head.maxBufferSamples

(* ------------------------------------------------------------------ *)
(* Claims about capturing again after Reset.                          *)
(* ------------------------------------------------------------------ *)
\* C24: after Reset on a cursor that had completed a full capture, Buffer
\* returns false while fewer than capacity samples have been appended since
\* the Reset, and a StopBuffering after N < capacity post-Reset Buffer calls
\* yields bufferedLength = N.
C24_ResetCapturesAfresh ==
    /\ (calls.again /\ head.ret.op = "Buffer"
           /\ calls.nBuffer < head.maxBufferSamples)
        => head.ret.val = FALSE
    /\ (calls.again /\ head.ret.op = "StopBuffering"
           /\ calls.nBuffer < head.maxBufferSamples)
        => (head.ret.val = calls.nBuffer /\ head.bufferSamples = calls.nBuffer)

\* C25: a write-rate change requested through SetWriteRate(channel, value) is a
\* one-shot request: a Process call made in Recording or Frozen applies it and
\* resets the pending marker mustSetChannelWriteRate to NONE.
C25_WriteRateRequestConsumed ==
    (seen.op = "Process" /\ seen.phase \in Running)
        => eng.mustSetChannelWriteRate = "NONE"

\* C27: after every Process call made in the Ready phase, for each channel the
\* pending loop-start target equals the channel's current loop start, the
\* pending loop-length target equals its current loop length (the whole
\* captured region), and the pending read-rate target is 1, whatever
\* SetLoopStart, SetLoopLength or SetReadRate wrote while the phase was Ready.
C27_ReadyLatchesTargets ==
    (seen.op = "Process" /\ seen.phase = "READY")
        => \A c \in Channels :
              /\ eng.nextLoopStart[c] = GetLoopStart(eng.loopers[c])
              /\ eng.nextLoopLength[c] = GetLoopLength(eng.loopers[c])
              /\ eng.nextLoopLength[c] = GetBufferSamples(eng.loopers[c])
              /\ eng.nextReadRate[c] = ToFloat(1)

\* C27's case: a Process call in Ready has overwritten a target that a setter
\* had written while the phase was Ready, after a capture of more than one
\* sample.
C27_Witness ==
    /\ seen.op = "Process" /\ seen.phase = "READY"
    /\ calls.overwrote
    /\ \A c \in Channels :
          /\ ~Unlatched(eng, c)
          /\ GetBufferSamples(eng.loopers[c]) > 1

\* C26: with the control context raising the restart flag while the audio
\* context runs Process, every raise is followed by a Trigger of both channels
\* at or after it: whenever a channel is owed a Trigger, both channels are
\* eventually triggered after the latest raise.
C26_EveryRaiseTriggers == (calls.owed # {}) ~> (calls.owed = {})

\* The second half of C26: no channel is triggered twice for one raise.
AtMostOneTriggerPerRaise == ~calls.extra

\* C28: after ClearBuffer on a cursor bound to a buffer of capacity C samples,
\* every sample at indices 0 .. C-1 is 0, and bufferedLength, loop geometry,
\* position and fade state of the cursor are unchanged.
C28_ClearBufferZeroesAll ==
    calls.cleared
        => /\ \A i \in 0 .. head.maxBufferSamples - 1 : SampleAt(head, i) = ZeroFloat
           /\ calls.kept

\* The frame half of C28: ClearBuffer leaves the cursor's fields alone.
ClearBufferKeepsCursor == calls.cleared => calls.kept

\* What ClearBuffer does clear: the samples that lie wholly inside the first
\* maxBufferSamples bytes.
ClearBufferZeroesFirstBytes ==
    calls.cleared
        => \A i \in 0 .. head.maxBufferSamples - 1 :
              (SizeOfFloat * (i + 1) <= head.maxBufferSamples)
                  => SampleAt(head, i) = ZeroFloat

\* C29: in every reachable state of a cursor the stopping flag is set exactly
\* when an Out fade is in progress, after any interleaving of Run, Stop,
\* SetUpFade, Read and Advance.
C29_StoppingIffFadingOut == head.isStopping <=> head.mustFade = "OUT"

\* The consequence C29 draws: a Stop(true) issued while no fade-out is running
\* starts a fade-out.
StopTrueStartsFadeOut ==
    [][(head' = Stop(Begin(head), TRUE) /\ head.mustFade # "OUT")
          => (head'.mustFade = "OUT" /\ head'.isStopping)]_vars

AdvancedWrite == head.type = "WRITE" /\ head'.ret.op = "UpdatePosition"

AdvancedRead(action) ==
    head.type = "READ" /\ head'.ret = Returned("UpdatePosition", action)

\* C30: Advance on a Write cursor leaves its direction, run flag, stopping
\* flag and fade state (fade kind and fade index) unchanged whatever boundary
\* action it resolves; on a Read cursor Invert flips the direction, and Stop
\* on a cursor that is not stopping starts a fade-out.
C30_WriteAdvanceMovesOnly ==
    [][/\ AdvancedWrite
           => /\ head'.direction = head.direction
              /\ head'.run = head.run
              /\ head'.isStopping = head.isStopping
              /\ head'.mustFade = head.mustFade
              /\ head'.fadeIndex = head.fadeIndex
       /\ AdvancedRead("INVERT") => head'.direction = -head.direction
       /\ (AdvancedRead("STOP") /\ ~head.isStopping)
           => (head'.isStopping /\ head'.mustFade = "OUT")]_vars

\* C30's case: a Write cursor in the middle of a fade has been advanced, and
\* the Advance resolved Invert or Stop.
C30_Witness ==
    /\ head.type = "WRITE"
    /\ head.ret.op = "UpdatePosition"
    /\ head.ret.val \in {"INVERT", "STOP"}
    /\ head.mustFade # "NO_FADE"
    /\ head.fadeIndex > 0

(* ------------------------------------------------------------------ *)
(* Claims about Process outside Recording and Frozen.                  *)
(* ------------------------------------------------------------------ *)
Idle == {"STARTUP", "READY"}

\* The cursor and the read rate of channel c are the same before and after.
ChannelUntouched(c) ==
    /\ eng'.loopers[c].head = eng.loopers[c].head
    /\ eng'.loopers[c].readRate = eng.loopers[c].readRate

\* C31: a Process call made in Startup or Ready touches neither channel (no
\* sample written, no cursor moved) and leaves the five one-shot request flags
\* as they are; no step taken in Startup, Buffering or Ready clears a pending
\* request, and a Process call made in Recording or Frozen applies every
\* request pending when it begins to both channels; a Process call made in
\* Ready leaves the phase Ready.
C31_IdleProcessKeepsRequests ==
    [][/\ (seen'.op = "Process" /\ eng.state \in Idle)
           => /\ \A c \in Channels : ChannelUntouched(c)
              /\ Pending(eng') = Pending(eng)
       /\ (eng.state \notin Running) => Pending(eng) \subseteq Pending(eng')
       /\ (seen'.op = "Process" /\ eng.state \in Running)
           => \A r \in Pending(eng), c \in Channels : r \in eng'.loopers[c].applied
       /\ (seen'.op = "Process" /\ eng.state = "READY")
           => eng'.state = "READY"]_vars

\* C31's case: a Process call made in Ready, after a capture, with a restart
\* and a clear request pending, has returned with both still pending.
C31_Witness ==
    /\ seen.op = "Process" /\ seen.phase = "READY"
    /\ eng.state = "READY"
    /\ {"restart", "clear"} \subseteq Pending(eng)
    /\ \A c \in Channels : GetBufferSamples(eng.loopers[c]) > 0

(* ------------------------------------------------------------------ *)
(* Claims about the two channels' captures.                           *)
(* ------------------------------------------------------------------ *)
Capturing(c) == eng.loopers[c].head.ret.op = "Buffer"

\* C32: after every Process call the two channels have the same
\* bufferedLength, and they leave Buffering in the same Process call: after a
\* Process call made in Buffering either both channels are still capturing or
\* StopBuffering has run on both.
C32_ChannelsCaptureInLockstep ==
    (seen.op = "Process")
        => /\ GetBufferSamples(eng.loopers["LEFT"]) = GetBufferSamples(eng.loopers["RIGHT"])
           /\ (seen.phase = "BUFFERING")
                => /\ Capturing("LEFT") <=> Capturing("RIGHT")
                   /\ Capturing("LEFT") <=> eng.state = "BUFFERING"

\* C32's case: a capture has been ended by the stop request before capacity,
\* while the loop-start targets of the two channels differ.
C32_Witness ==
    /\ seen.op = "Process" /\ seen.phase = "BUFFERING"
    /\ eng.state = "READY"
    /\ \A c \in Channels : eng.loopers[c].head.intIndex = 0
    /\ GetBufferSamples(eng.loopers["LEFT"]) \in 1 .. (MaxBufferSamples - 1)
    /\ eng.nextLoopStart["LEFT"] # eng.nextLoopStart["RIGHT"]

====
